---- MODULE Spec2Model ----
(***************************************************************************)
(* A model of the dotfiles installer (install.py) and of the code-quality  *)
(* checker (.local/bin/check.py).                                          *)
(*                                                                         *)
(* Texts are sequences of tokens.  A token is one character ("a", "p",     *)
(* "\n", "#") or one of the delimiter words of install.py (lines 20-23).   *)
(* Python's 0-based indices are kept: find returns a 0-based index or -1,  *)
(* PySlice takes Python slice bounds.                                      *)
(***************************************************************************)
EXTENDS Integers, Sequences, FiniteSets, TLC

\* The delimited text merge: the patch, the target file, the runs so far.
VARIABLES t_patch, t_target, t_runs
\* The JSON merge: its two arguments and its outcome.
VARIABLES j_source, j_target, j_result

\* The source reader: the text of the source file and the patch read from it.
VARIABLES r_string, r_patch
\* The checker: its --verbose argument, the tool to run next, the subprocess
\* that is running, the commands started, the exit codes of the tools that
\* ended, the log and the exit code of the checker itself.
VARIABLES c_verbose, c_next, c_running, c_started, c_codes, c_log, c_exit

textVars == <<t_patch, t_target, t_runs>>
jsonVars == <<j_source, j_target, j_result>>
readVars == <<r_string, r_patch>>
\* The installer: its --dry-run argument, whether uv is on the search path,
\* the target files and the directories of the filesystem, the calls main has
\* still to make, the log, the filesystem operations write_file has made, and
\* the exception that ended the run.
VARIABLES i_dry_run, i_uv, i_files, i_dirs, i_todo, i_log, i_ops, i_error

checkVars == <<c_verbose, c_next, c_running, c_started, c_codes, c_log, c_exit>>
instVars == <<i_dry_run, i_uv, i_files, i_dirs, i_todo, i_log, i_ops, i_error>>

vars == <<textVars, jsonVars, readVars, checkVars, instVars>>

(***************************************************************************)
(* Bounds of the model.                                                    *)
(***************************************************************************)
MaxPieces == 6
MaxRuns == 2
MaxNum == 2
MaxElems == 2
MaxSourceLen == 7
MaxExitCode == 17

(***************************************************************************)
(* Program constants: the delimiter words.                                 *)
(***************************************************************************)
START_DELIMITER == "valentjn_dotfiles_start"
END_DELIMITER == "valentjn_dotfiles_end"
IGNORE_START_DELIMITER == "valentjn_dotfiles_ignore_start"
IGNORE_END_DELIMITER == "valentjn_dotfiles_ignore_end"

\* Python's None, where a delimiter is expected.
None == <<"None">>

NL == "\n"

Min(S) == CHOOSE x \in S : \A y \in S : x <= y
Max(S) == CHOOSE x \in S : \A y \in S : x >= y

(***************************************************************************)
(* Python built-ins on strings.                                            *)
(***************************************************************************)
\* s[lo:hi] with Python's treatment of negative and out-of-range bounds.
PyIndex(i, n) ==
    IF i < 0 THEN (IF i + n < 0 THEN 0 ELSE i + n) ELSE (IF i > n THEN n ELSE i)

PySlice(s, lo, hi) ==
    LET n == Len(s)
        l == PyIndex(lo, n)
        h == PyIndex(hi, n)
    IN  IF l < h THEN SubSeq(s, l + 1, h) ELSE <<>>

\* s[lo:]
PySliceFrom(s, lo) == PySlice(s, lo, Len(s))

\* s[:hi]
PySliceTo(s, hi) == PySlice(s, 0, hi)

\* str.find(needle, start): the lowest 0-based index at or after start where
\* needle occurs in hay, else -1.
find(hay, needle, start) ==
    LET n == Len(hay)
        m == Len(needle)
        s0 == IF start < 0 THEN (IF start + n < 0 THEN 0 ELSE start + n) ELSE start
        hits == {i \in s0..(n - m) : SubSeq(hay, i + 1, i + m) = needle}
    IN  IF hits = {} THEN -1 ELSE Min(hits)

(***************************************************************************)
(* install_string (install.py 132-146).                                    *)
(***************************************************************************)
patch_with_delimiters(patch, start_delimiter, end_delimiter) ==
    <<NL>> \o start_delimiter \o <<NL>> \o patch \o <<NL>> \o end_delimiter \o <<NL>>

\* install_string with the test of line 144 weakened ("and" for "or").
install_string_and(patch, string, start_delimiter, end_delimiter) ==
    IF start_delimiter = None \/ end_delimiter = None
    THEN patch
    ELSE LET pwd == patch_with_delimiters(patch, start_delimiter, end_delimiter)
             start_index == find(string, start_delimiter, 0)
             end_index == find(string, end_delimiter, start_index)
         IN  IF start_index = -1 /\ end_index = -1
             THEN string \o pwd
             ELSE PySliceTo(string, start_index - 1) \o pwd
                     \o PySliceFrom(string, end_index + Len(end_delimiter) + 1)

install_string(patch, string, start_delimiter, end_delimiter) ==
    IF start_delimiter = None \/ end_delimiter = None
    THEN patch
    ELSE LET pwd == patch_with_delimiters(patch, start_delimiter, end_delimiter)
             start_index == find(string, start_delimiter, 0)
             end_index == find(string, end_delimiter, start_index)
         IN  IF start_index = -1 \/ end_index = -1
             THEN string \o pwd
             ELSE PySliceTo(string, start_index - 1) \o pwd
                     \o PySliceFrom(string, end_index + Len(end_delimiter) + 1)

(***************************************************************************)
(* install_text (install.py 98-111): the delimiters it passes and the      *)
(* content it hands to write_file.  A target file is a record              *)
(* [exists, text]; an absent file reads as "".                             *)
(***************************************************************************)
text_start_delimiter(overwrite) ==
    IF overwrite THEN None ELSE <<"#", " ", START_DELIMITER>>

text_end_delimiter(overwrite) ==
    IF overwrite THEN None ELSE <<"#", " ", END_DELIMITER>>

Absent == [exists |-> FALSE, text |-> <<>>]

File(text) == [exists |-> TRUE, text |-> text]

install_text_str(patch, target, overwrite) ==
    LET target_str == IF target.exists THEN target.text ELSE <<>>
    IN  install_string(patch, target_str,
                       text_start_delimiter(overwrite), text_end_delimiter(overwrite))

(***************************************************************************)
(* Specification of the delimited text merge: a patch and a target file    *)
(* with arbitrary content; the installer is run on them repeatedly.        *)
(* t_runs is the sequence of file contents before and after each run.      *)
(***************************************************************************)
Pieces == {<<"a">>, <<NL>>, text_start_delimiter(FALSE), text_end_delimiter(FALSE)}

RECURSIVE Docs(_)
Docs(k) ==
    IF k = 0 THEN {<<>>}
    ELSE LET prev == Docs(k - 1)
         IN  prev \cup {d \o p : d \in prev, p \in Pieces}

Patches == {<<NL>>, <<"p", NL>>}

TextIdle == t_patch = <<>> /\ t_target = Absent /\ t_runs = <<>>

TextInit ==
    /\ t_patch \in Patches
    /\ t_target \in {Absent} \cup {File(d) : d \in Docs(MaxPieces)}
    /\ t_runs = <<>>

TextInstall ==
    /\ Len(t_runs) < MaxRuns
    /\ LET new == install_text_str(t_patch, t_target, FALSE)
       IN  /\ t_target' = File(new)
           /\ t_runs' = Append(t_runs, [before |-> t_target, after |-> new])
    /\ UNCHANGED t_patch
    /\ UNCHANGED <<jsonVars, readVars, checkVars, instVars>>

TextNext == TextInstall

(***************************************************************************)
(* JSON values, as json.loads gives them: a number [num], a string [str],  *)
(* a list [list] of values, or a dict [obj], kept as the sequence of its   *)
(* items [key, val] in insertion order, with distinct keys.                *)
(***************************************************************************)
Num(n) == [num |-> n]
Str(x) == [str |-> x]
List(xs) == [list |-> xs]
Obj(items) == [obj |-> items]
Item(k, v) == [key |-> k, val |-> v]

IsDict(v) == "obj" \in DOMAIN v
IsList(v) == "list" \in DOMAIN v
IsErr(v) == "err" \in DOMAIN v

\* The exceptions merge_json can raise.
TypeErrorObjects == [err |-> "cannot merge JSON objects with non-objects"]
TypeErrorArrays == [err |-> "cannot merge JSON arrays with non-arrays"]
TypeErrorUnhashable == [err |-> "unhashable type"]

\* key in d, d[key], and d[key] = value (an existing key keeps its place).
HasKey(items, k) == \E i \in 1..Len(items) : items[i].key = k

GetKey(items, k) == items[CHOOSE i \in 1..Len(items) : items[i].key = k].val

SetKey(items, k, v) ==
    IF HasKey(items, k)
    THEN [i \in 1..Len(items) |-> IF items[i].key = k THEN Item(k, v) ELSE items[i]]
    ELSE Append(items, Item(k, v))

Elems(xs) == {xs[i] : i \in 1..Len(xs)}

\* hash(v) raises for a list or a dict.
Hashable(v) == ~IsDict(v) /\ ~IsList(v)

\* The comprehension of line 94 without its filter.
NotIn_all(target, source_set) == target

RECURSIVE NotIn(_, _)
\* [item for item in target if item not in source_set]
NotIn(target, source_set) ==
    IF target = <<>> THEN <<>>
    ELSE IF Head(target) \in source_set
         THEN NotIn(Tail(target), source_set)
         ELSE <<Head(target)>> \o NotIn(Tail(target), source_set)

(***************************************************************************)
(* merge_json (install.py 79-95).  The result is the merged value, or the  *)
(* exception that leaves the call.                                         *)
(***************************************************************************)
RECURSIVE merge_json(_, _)
RECURSIVE merge_items(_, _, _)

\* The loop of lines 86-87 with target's value taken for a shared key too.
merge_items_update(result, source, items) ==
    IF items = <<>> THEN Obj(result)
    ELSE merge_items(SetKey(result, Head(items).key, Head(items).val), source, Tail(items))

\* The loop of lines 86-87 over the remaining items of target.
merge_items(result, source, items) ==
    IF items = <<>> THEN Obj(result)
    ELSE LET key == Head(items).key
             value == Head(items).val
         IN  IF HasKey(source, key)
             THEN LET m == merge_json(GetKey(source, key), value)
                  IN  IF IsErr(m) THEN m
                      ELSE merge_items(SetKey(result, key, m), source, Tail(items))
             ELSE merge_items(SetKey(result, key, value), source, Tail(items))

\* merge_json without the test of lines 82-84.
merge_json_unchecked(source, target) ==
    IF IsDict(source)
    THEN IF ~IsDict(target) THEN source
         ELSE merge_items(source.obj, source.obj, target.obj)
    ELSE IF IsList(source)
    THEN IF ~IsList(target) THEN TypeErrorArrays
         ELSE IF \E x \in Elems(source.list) \cup Elems(target.list) : ~Hashable(x)
              THEN TypeErrorUnhashable
              ELSE List(source.list \o NotIn(target.list, Elems(source.list)))
    ELSE source

merge_json(source, target) ==
    IF IsDict(source)
    THEN IF ~IsDict(target) THEN TypeErrorObjects
         ELSE merge_items(source.obj, source.obj, target.obj)
    ELSE IF IsList(source)
    THEN IF ~IsList(target) THEN TypeErrorArrays
         ELSE IF \E x \in Elems(source.list) \cup Elems(target.list) : ~Hashable(x)
              THEN TypeErrorUnhashable
              ELSE List(source.list \o NotIn(target.list, Elems(source.list)))
    ELSE source

(***************************************************************************)
(* Specification of the JSON merge: two JSON values, merged once.          *)
(***************************************************************************)
Keys == {"a", "b"}

Scalars == {Num(n) : n \in 1..MaxNum} \cup {Str("s")}

RECURSIVE SeqsUpTo(_, _)
SeqsUpTo(S, k) ==
    IF k = 0 THEN {<<>>}
    ELSE LET prev == SeqsUpTo(S, k - 1)
         IN  prev \cup {Append(xs, x) : xs \in prev, x \in S}

\* Dicts over Keys with values from V, in every insertion order.
Dicts(V) ==
    {Obj(<<>>)}
        \cup {Obj(<<Item(k, v)>>) : k \in Keys, v \in V}
        \cup {Obj(<<Item(k[1], v), Item(k[2], w)>>) :
                k \in {<<"a", "b">>, <<"b", "a">>}, v \in V, w \in V}

Lists == {List(xs) : xs \in SeqsUpTo(Scalars \cup {List(<<>>)}, MaxElems)}

InnerValues ==
    { Num(1), Num(2), List(<<Num(1)>>), List(<<Num(2), Num(1)>>),
      Obj(<<Item("a", Num(1))>>), Obj(<<Item("b", Num(2))>>),
      Obj(<<Item("a", Obj(<<Item("a", Num(1))>>))>>),
      Obj(<<Item("a", List(<<Num(2)>>))>>) }

JsonValues == Scalars \cup Lists \cup Dicts(InnerValues)

Pending == [pending |-> TRUE]

JsonIdle == j_source = Num(0) /\ j_target = Num(0) /\ j_result = Pending

JsonInit ==
    /\ j_source \in JsonValues
    /\ j_target \in JsonValues
    /\ j_result = Pending

JsonMerge ==
    /\ j_result = Pending
    /\ j_result' = merge_json(j_source, j_target)
    /\ UNCHANGED <<j_source, j_target>>
    /\ UNCHANGED <<textVars, readVars, checkVars, instVars>>

JsonNext == JsonMerge

(***************************************************************************)
(* read_source_file (install.py 165-177).                                  *)
(***************************************************************************)
RECURSIVE splitlines(_)
\* str.splitlines(): the lines of a text, without their line breaks; a line
\* break at the very end opens no further line.
splitlines(string) ==
    IF string = <<>> THEN <<>>
    ELSE LET breaks == {i \in 1..Len(string) : string[i] = NL}
         IN  IF breaks = {} THEN <<string>>
             ELSE <<SubSeq(string, 1, Min(breaks) - 1)>>
                     \o splitlines(SubSeq(string, Min(breaks) + 1, Len(string)))

RECURSIVE join(_)
\* "\n".join(lines)
join(lines) ==
    IF lines = <<>> THEN <<>>
    ELSE IF Len(lines) = 1 THEN Head(lines)
    ELSE Head(lines) \o <<NL>> \o join(Tail(lines))

\* delimiter in line
Contains(line, delimiter) == \E i \in 1..Len(line) : line[i] = delimiter

RECURSIVE scan_lines(_, _)

\* The loop of lines 170-176 with the end marker looked for before the line
\* is appended.
scan_lines_end_first(lines, in_ignored_section) ==
    IF lines = <<>> THEN <<>>
    ELSE LET line == Head(lines)
             started == in_ignored_section \/ Contains(line, IGNORE_START_DELIMITER)
             ended == started /\ ~Contains(line, IGNORE_END_DELIMITER)
         IN  (IF ended THEN <<>> ELSE <<line>>) \o scan_lines(Tail(lines), ended)

\* The loop of lines 170-176 over the remaining lines: the lines appended.
scan_lines(lines, in_ignored_section) ==
    IF lines = <<>> THEN <<>>
    ELSE LET line == Head(lines)
             started == in_ignored_section \/ Contains(line, IGNORE_START_DELIMITER)
             ended == started /\ ~Contains(line, IGNORE_END_DELIMITER)
         IN  (IF started THEN <<>> ELSE <<line>>) \o scan_lines(Tail(lines), ended)

read_source_file(string) == join(scan_lines(splitlines(string), FALSE)) \o <<NL>>

(***************************************************************************)
(* Specification of the source reader: a source text, read once.           *)
(***************************************************************************)
SourceTokens == {"a", NL, IGNORE_START_DELIMITER, IGNORE_END_DELIMITER}

Unread == <<"unread">>

ReadIdle == r_string = <<>> /\ r_patch = Unread

ReadInit ==
    /\ r_string \in SeqsUpTo(SourceTokens, MaxSourceLen)
    /\ r_patch = Unread

ReadSource ==
    /\ r_patch = Unread
    /\ r_patch' = read_source_file(r_string)
    /\ UNCHANGED r_string
    /\ UNCHANGED <<textVars, jsonVars, checkVars, instVars>>

ReadNext == ReadSource

(***************************************************************************)
(* The checker (check.py).  Python's None, True and False for --verbose    *)
(* are the strings "None", "True", "False".                                *)
(***************************************************************************)
Truthy(flag) == flag = "True"

\* run_ruff_check (check.py 51-87)
ruff_check_command(verbose) ==
    <<"uvx", "ruff", "--quiet", "check", "--extend-select", "ALL", "--fix",
      "--ignore", "COM812,D203,D213,S310,S603,S607", "--line-length", "120",
      "--output-format", "concise", "--target-version", "py313">>
        \o (IF Truthy(verbose) THEN <<"--show-files">> ELSE <<>>)

\* run_ruff_format (check.py 34-39)
ruff_format_command(verbose) ==
    <<"uvx", "ruff", "format">> \o (IF ~Truthy(verbose) THEN <<"--quiet">> ELSE <<>>)

\* run_mypy (check.py 42-48)
mypy_command(verbose) ==
    <<"uvx", "mypy", "--strict">> \o (IF Truthy(verbose) THEN <<"--verbose">> ELSE <<>>)
        \o <<".">>

\* The calls of main (check.py 21-23), in order: the command and the
\* program_name argument ("None" where run_mypy passes none).
main_calls(verbose) ==
    << [command |-> ruff_check_command(verbose), program_name |-> "ruff check"],
       [command |-> ruff_format_command(verbose), program_name |-> "ruff format"],
       [command |-> mypy_command(verbose), program_name |-> "None"] >>

\* The program name run logs (check.py 97-102).
program_name_of(call) ==
    IF call.program_name = "None"
    THEN (IF call.command[1] = "uvx" THEN call.command[2] ELSE call.command[1])
    ELSE call.program_name

\* The exit status of a process that calls sys.exit(code).
exit_status(code) == code % 256

NoProcess == <<>>

CheckIdle ==
    /\ c_verbose = "None" /\ c_next = 0 /\ c_running = NoProcess /\ c_started = <<>>
    /\ c_codes = <<>> /\ c_log = <<>> /\ c_exit = <<>>

CheckInit ==
    /\ c_verbose \in {"None", "True", "False"}
    /\ c_next = 1
    /\ c_running = NoProcess
    /\ c_started = <<>>
    /\ c_codes = <<>>
    /\ c_log = <<>>
    /\ c_exit = <<>>

\* run, up to subprocess.run starting the command (check.py 97-106).
CheckRun ==
    /\ c_exit = <<>>
    /\ c_running = NoProcess
    /\ c_next \in 1..Len(main_calls(c_verbose))
    /\ LET call == main_calls(c_verbose)[c_next]
       IN  /\ c_log' = Append(c_log, <<"INFO", "running", program_name_of(call)>>)
           /\ c_running' = call.command
           /\ c_started' = Append(c_started, call.command)
    /\ UNCHANGED <<c_verbose, c_next, c_codes, c_exit>>
    /\ UNCHANGED <<textVars, jsonVars, readVars, instVars>>

\* The tool ends with a nonzero code and run goes on to the next call all the same.
CheckToolExits_ignoring ==
    /\ c_exit = <<>>
    /\ c_running # NoProcess
    /\ \E returncode \in 0..MaxExitCode :
          /\ c_codes' = Append(c_codes, returncode)
          /\ c_running' = NoProcess
          /\ c_next' = c_next + 1
          /\ IF c_next = Len(main_calls(c_verbose))
             THEN /\ c_log' = Append(c_log, <<"INFO", "all checks passed">>)
                  /\ c_exit' = <<exit_status(0)>>
             ELSE UNCHANGED <<c_log, c_exit>>
    /\ UNCHANGED <<c_verbose, c_started>>
    /\ UNCHANGED <<textVars, jsonVars, readVars, instVars>>

\* The tool ends: subprocess.run(check=True) returns or raises, and run and
\* main go on to the next subprocess or to the end of the process
\* (check.py 106-109, 22-24).
CheckToolExits ==
    /\ c_exit = <<>>
    /\ c_running # NoProcess
    /\ \E returncode \in 0..MaxExitCode :
          /\ c_codes' = Append(c_codes, returncode)
          /\ c_running' = NoProcess
          /\ IF returncode # 0
             THEN /\ c_log' = Append(c_log,
                        <<"ERROR", program_name_of(main_calls(c_verbose)[c_next]),
                          "failed with exit code", returncode>>)
                  /\ c_exit' = <<exit_status(returncode)>>
                  /\ UNCHANGED c_next
             ELSE /\ c_next' = c_next + 1
                  /\ IF c_next = Len(main_calls(c_verbose))
                     THEN /\ c_log' = Append(c_log, <<"INFO", "all checks passed">>)
                          /\ c_exit' = <<exit_status(0)>>
                     ELSE UNCHANGED <<c_log, c_exit>>
    /\ UNCHANGED <<c_verbose, c_started>>
    /\ UNCHANGED <<textVars, jsonVars, readVars, instVars>>

CheckNext == CheckRun \/ CheckToolExits

(***************************************************************************)
(* The installer (install.py 28-76, 98-129, 149-206).  A path is the       *)
(* sequence of its components.  A file of the filesystem is a record       *)
(* [exists, text, mode].  Its text is a record: [chars] for the tokens of  *)
(* a plain text, [json, form] for a text json.loads accepts (the value,    *)
(* and who wrote the text), or [invalid] for one json.loads rejects.       *)
(***************************************************************************)
Home == <<"~">>

WorkspacesDir == <<"/workspaces">>

Plain(chars) == [chars |-> chars]

NoFile == [exists |-> FALSE, text |-> Plain(<<>>), mode |-> "none"]

\* The files of the repository the installer reads: text and st_mode.
SourceFile(path) ==
    CASE path = <<".bashrc">> ->
            [text |-> Plain(<<"a", NL, IGNORE_START_DELIMITER, NL, "a", NL,
                              IGNORE_END_DELIMITER, NL>>), mode |-> "644"]
      [] path = <<".gitconfig">> -> [text |-> Plain(<<"a", NL>>), mode |-> "644"]
      [] path = <<".local", "bin", "check.py">> ->
            [text |-> Plain(<<"p", NL>>), mode |-> "755"]
      [] path = <<".vscode", "settings.json">> ->
            [text |-> [json |-> Obj(<<Item("a", Num(1)), Item("b", List(<<Num(1)>>))>>),
                       form |-> "repository"],
             mode |-> "644"]

\* sorted(Path(".local/bin").iterdir()), the files among them
BinFiles == << <<".local", "bin", "check.py">> >>

JSONDecodeError == [err |-> "JSONDecodeError"]

json_loads(text) == IF "json" \in DOMAIN text THEN text.json ELSE JSONDecodeError

json_dumps(value) == [json |-> value, form |-> "json.dumps"]

\* read_source_file on a source of either sort: a JSON source holds no ignore
\* markers and its lines are joined again as they were.
read_source(path) ==
    LET text == SourceFile(path).text
    IN  IF "chars" \in DOMAIN text THEN Plain(read_source_file(text.chars)) ELSE text

\* get_source_and_target_paths (install.py 149-162): the target path.
target_path(path, target_dir) ==
    (IF target_dir = None THEN Home ELSE target_dir) \o path

Parent(path) == SubSeq(path, 1, Len(path) - 1)

Ancestors(dir) == {SubSeq(dir, 1, k) : k \in 1..Len(dir)}

\* write_file with the parent directories made before dry-run is looked at.
write_file_mkdir_first(source, string, target, dry_run, st) ==
    IF Truthy(dry_run)
    THEN [st EXCEPT !.dirs = @ \cup Ancestors(Parent(target)),
                    !.ops = @ \o << [op |-> "mkdir", path |-> Parent(target)] >>,
                    !.log = @ \o << <<"would write %s:", target>>, <<"%s", string>> >>]
    ELSE [st EXCEPT
            !.log = Append(@, <<"writing %s", target>>),
            !.dirs = @ \cup Ancestors(Parent(target)),
            !.files[target] = [exists |-> TRUE, text |-> string,
                               mode |-> SourceFile(source).mode],
            !.ops = @ \o << [op |-> "mkdir", path |-> Parent(target)],
                            [op |-> "write_text", path |-> target],
                            [op |-> "chmod", path |-> target] >>]

\* write_file (install.py 180-196) on the filesystem and log st.
write_file(source, string, target, dry_run, st) ==
    IF Truthy(dry_run)
    THEN [st EXCEPT
            !.log = @ \o << <<"would write %s:", target>>, <<"%s", string>> >>]
    ELSE [st EXCEPT
            !.log = Append(@, <<"writing %s", target>>),
            !.dirs = @ \cup Ancestors(Parent(target)),
            !.files[target] = [exists |-> TRUE, text |-> string,
                               mode |-> SourceFile(source).mode],
            !.ops = @ \o << [op |-> "mkdir", path |-> Parent(target)],
                            [op |-> "write_text", path |-> target],
                            [op |-> "chmod", path |-> target] >>]

\* install_text (install.py 98-111)
install_text(path, dry_run, overwrite, target_dir, st) ==
    LET target == target_path(path, target_dir)
        existing == st.files[target]
        target_str ==
            install_text_str(read_source(path).chars,
                             IF existing.exists THEN File(existing.text.chars) ELSE Absent,
                             overwrite)
    IN  write_file(path, Plain(target_str), target, dry_run, st)

\* install_json with the patch written when the merge raises.
install_json_fallback(path, dry_run, target_dir, st) ==
    LET target == target_path(path, target_dir)
        patch == read_source(path)
        merged == merge_json(json_loads(patch), json_loads(st.files[target].text))
    IN  IF ~st.files[target].exists THEN write_file(path, patch, target, dry_run, st)
        ELSE IF IsErr(json_loads(st.files[target].text))
        THEN [st EXCEPT !.error = json_loads(st.files[target].text)]
        ELSE IF IsErr(merged)
        THEN [write_file(path, patch, target, dry_run, st) EXCEPT !.error = merged]
        ELSE write_file(path, json_dumps(merged), target, dry_run, st)

\* install_json (install.py 66-76)
install_json(path, dry_run, target_dir, st) ==
    LET target == target_path(path, target_dir)
        patch == read_source(path)
        merged == merge_json(json_loads(patch), json_loads(st.files[target].text))
    IN  IF ~st.files[target].exists THEN write_file(path, patch, target, dry_run, st)
        ELSE IF IsErr(json_loads(st.files[target].text))
        THEN [st EXCEPT !.error = json_loads(st.files[target].text)]
        ELSE IF IsErr(merged)
        THEN [st EXCEPT !.error = merged]
        ELSE write_file(path, json_dumps(merged), target, dry_run, st)

\* sorted(Path("/workspaces").iterdir()) over the names a workspace can have
WorkspaceNames == <<".cache", "dotfiles", "proj1", "proj2">>

\* workspace.name.startswith(".")
IsHidden(name) == name = ".cache"

\* install_in_workspaces (install.py 55-63): the calls it makes, in order.
install_in_workspaces(dirs) ==
    LET listed == SelectSeq(WorkspaceNames, LAMBDA w : WorkspacesDir \o <<w>> \in dirs)
        chosen == SelectSeq(listed, LAMBDA w : w # "dotfiles" /\ ~IsHidden(w))
    IN  [i \in 1..Len(chosen) |->
            [fn |-> "install_json", path |-> <<".vscode", "settings.json">>,
             overwrite |-> FALSE, target_dir |-> WorkspacesDir \o <<chosen[i]>>]]

\* install_text_dir (install.py 114-129): the calls it makes, in order.
install_text_dir(overwrite) ==
    [i \in 1..Len(BinFiles) |->
        [fn |-> "install_text", path |-> BinFiles[i], overwrite |-> overwrite,
         target_dir |-> None]]

\* main (install.py 32-40): the calls it makes, in order.
main(dirs) ==
    << [fn |-> "install_text", path |-> <<".bashrc">>, overwrite |-> FALSE,
        target_dir |-> None],
       [fn |-> "install_text", path |-> <<".gitconfig">>, overwrite |-> FALSE,
        target_dir |-> None] >>
        \o install_text_dir(TRUE)
        \o install_in_workspaces(dirs)
        \o << [fn |-> "install_uv", path |-> <<>>, overwrite |-> FALSE,
               target_dir |-> None] >>

NoError == [err |-> "none"]

SettingsPath(w) == WorkspacesDir \o <<w, ".vscode", "settings.json">>

TargetPaths ==
    {Home \o <<".bashrc">>, Home \o <<".gitconfig">>, Home \o <<".local", "bin", "check.py">>}
        \cup {SettingsPath(WorkspaceNames[i]) : i \in 1..Len(WorkspaceNames)}

UserFile(text) == [exists |-> TRUE, text |-> text, mode |-> "600"]

\* What the target files can hold before the installer runs.
BashrcFiles ==
    { NoFile, UserFile(Plain(<<"a", NL>>)),
      UserFile(Plain(<<"a", NL, "#", " ", START_DELIMITER, NL, "a", NL,
                       "#", " ", END_DELIMITER, NL, "a", NL>>)) }

GitconfigFiles == {NoFile, UserFile(Plain(<<"a", NL>>))}

CheckPyFiles == {NoFile, UserFile(Plain(<<"a", NL>>))}

SettingsFiles ==
    { NoFile,
      UserFile([json |-> Obj(<<Item("b", List(<<Num(2)>>)), Item("a", Num(2))>>), form |-> "user"]),
      UserFile([json |-> List(<<Num(1)>>), form |-> "user"]),
      UserFile([json |-> Obj(<<Item("b", Num(2))>>), form |-> "user"]),
      UserFile([invalid |-> "// comment"]) }

\* The settings files looked at in the workspaces the installer skips.
OtherSettingsFiles ==
    {NoFile, UserFile([json |-> List(<<Num(1)>>), form |-> "user"])}

\* The directories that exist: those of a filesystem with the given
\* workspaces, and the parents of the files that exist.
DirsOf(workspaces, files) ==
    {Home, WorkspacesDir}
        \cup {WorkspacesDir \o <<w>> : w \in workspaces}
        \cup UNION {Ancestors(Parent(p)) : p \in {q \in TargetPaths : files[q].exists}}

InstIdle ==
    /\ i_dry_run = "None" /\ i_uv = "present" /\ i_files = <<>> /\ i_dirs = {}
    /\ i_todo = <<>> /\ i_log = <<>> /\ i_ops = <<>> /\ i_error = NoError

InstInit ==
    /\ i_dry_run \in {"None", "True", "False"}
    /\ i_uv \in {"present", "absent"}
    /\ \E workspaces \in SUBSET Elems(WorkspaceNames) :
       \E bashrc \in BashrcFiles, gitconfig \in GitconfigFiles, check_py \in CheckPyFiles :
       \E settings \in [workspaces -> SettingsFiles] :
          /\ \A w \in workspaces :
                (w = "dotfiles" \/ IsHidden(w)) => settings[w] \in OtherSettingsFiles
          /\ i_files =
                [p \in TargetPaths |->
                    IF p = Home \o <<".bashrc">> THEN bashrc
                    ELSE IF p = Home \o <<".gitconfig">> THEN gitconfig
                    ELSE IF p = Home \o <<".local", "bin", "check.py">> THEN check_py
                    ELSE IF p[2] \in workspaces THEN settings[p[2]]
                    ELSE NoFile]
          /\ i_dirs = DirsOf(workspaces, i_files)
    /\ i_todo = main(i_dirs)
    /\ i_log = <<>>
    /\ i_ops = <<>>
    /\ i_error = NoError

InstState == [files |-> i_files, dirs |-> i_dirs, log |-> i_log, ops |-> i_ops, error |-> i_error]

\* The call returned or raised: main goes on to the next call, or the run ends.
Returned(st) ==
    /\ i_files' = st.files
    /\ i_dirs' = st.dirs
    /\ i_log' = st.log
    /\ i_ops' = st.ops
    /\ i_error' = st.error
    /\ i_todo' = IF st.error = NoError THEN Tail(i_todo) ELSE i_todo

Running == i_error = NoError /\ i_todo # <<>>

InstallText ==
    /\ Running
    /\ Head(i_todo).fn = "install_text"
    /\ Returned(install_text(Head(i_todo).path, i_dry_run, Head(i_todo).overwrite,
                             Head(i_todo).target_dir, InstState))
    /\ UNCHANGED <<i_dry_run, i_uv>>
    /\ UNCHANGED <<textVars, jsonVars, readVars, checkVars>>

InstallJson ==
    /\ Running
    /\ Head(i_todo).fn = "install_json"
    /\ Returned(install_json(Head(i_todo).path, i_dry_run, Head(i_todo).target_dir,
                             InstState))
    /\ UNCHANGED <<i_dry_run, i_uv>>
    /\ UNCHANGED <<textVars, jsonVars, readVars, checkVars>>

\* install_uv (install.py 199-206): the download or the script may fail.
InstallUv ==
    /\ Running
    /\ Head(i_todo).fn = "install_uv"
    /\ \E outcome \in {"installed", "failed"} :
          IF i_uv # "absent"
          THEN /\ outcome = "installed"
               /\ UNCHANGED <<i_uv, i_log, i_error>>
               /\ i_todo' = Tail(i_todo)
          ELSE /\ i_log' = Append(i_log, <<"installing uv">>)
               /\ IF outcome = "installed"
                  THEN /\ i_uv' = "installed"
                       /\ i_todo' = Tail(i_todo)
                       /\ UNCHANGED i_error
                  ELSE /\ i_error' = [err |-> "install_uv failed"]
                       /\ UNCHANGED <<i_uv, i_todo>>
    /\ UNCHANGED <<i_dry_run, i_files, i_dirs, i_ops>>
    /\ UNCHANGED <<textVars, jsonVars, readVars, checkVars>>

InstNext == InstallText \/ InstallJson \/ InstallUv

(***************************************************************************)
(* The specifications.                                                     *)
(***************************************************************************)
InitText == TextInit /\ JsonIdle /\ ReadIdle /\ CheckIdle /\ InstIdle

InitJson == JsonInit /\ TextIdle /\ ReadIdle /\ CheckIdle /\ InstIdle

InitRead == ReadInit /\ TextIdle /\ JsonIdle /\ CheckIdle /\ InstIdle

InitCheck == CheckInit /\ TextIdle /\ JsonIdle /\ ReadIdle /\ InstIdle

InitInst == InstInit /\ TextIdle /\ JsonIdle /\ ReadIdle /\ CheckIdle

SpecText == InitText /\ [][TextNext]_vars

SpecJson == InitJson /\ [][JsonNext]_vars

SpecRead == InitRead /\ [][ReadNext]_vars

SpecCheck == InitCheck /\ [][CheckNext]_vars

SpecInst == InitInst /\ [][InstNext]_vars

(***************************************************************************)
(* Vocabulary of the claims about the text merge, stated on the texts      *)
(* themselves (0-based positions), independently of find and PySlice.      *)
(***************************************************************************)
SD == <<"#", " ", START_DELIMITER>>
ED == <<"#", " ", END_DELIMITER>>

OccursAt(doc, needle, i) ==
    /\ i >= 0
    /\ i + Len(needle) <= Len(doc)
    /\ \A k \in 1..Len(needle) : doc[i + k] = needle[k]

\* Position of the first start marker, and of the first end marker at or after it.
StartPositions(doc) == {i \in 0..Len(doc) : OccursAt(doc, SD, i)}

EndPositions(doc) ==
    {i \in 0..Len(doc) : OccursAt(doc, ED, i) /\ i >= Min(StartPositions(doc))}

HasRegion(doc) == StartPositions(doc) # {} /\ EndPositions(doc) # {}

Wrapped(patch) == <<NL>> \o SD \o <<NL>> \o patch \o <<NL>> \o ED \o <<NL>>

\* The text before the start marker's line, and the text after the end marker's line.
BeforeRegion(doc) ==
    LET s == Min(StartPositions(doc))
        nls == {j \in 1..s : doc[j] = NL}
    IN  IF nls = {} THEN <<>> ELSE SubSeq(doc, 1, Max(nls))

AfterRegion(doc) ==
    LET e == Min(EndPositions(doc))
        nls == {j \in (e + 1)..Len(doc) : doc[j] = NL}
    IN  IF nls = {} THEN <<>> ELSE SubSeq(doc, Min(nls) + 1, Len(doc))

IsPrefix(p, s) == Len(p) <= Len(s) /\ SubSeq(s, 1, Len(p)) = p

BeforeText(run) == IF run.before.exists THEN run.before.text ELSE <<>>

\* C1: the delimited text merge is idempotent: a second run of the installer
\* with the same patch leaves the text the first run produced, for every
\* existing text (with or without markers, also with the start marker at
\* offset 0).
C1_Idempotent ==
    Len(t_runs) >= 2 => t_runs[2].after = t_runs[1].after

\* C2: when the existing text holds the start marker and the end marker at or
\* after it, the result is the text before the start marker's line, the wrapped
\* block and the text after the end marker's line: the surrounding characters
\* are all kept, in order, and none is added (the line break that ends the text
\* before the region may be the one the wrapped block starts with).
C2_ReplacesRegionOnly ==
    \A i \in 1..Len(t_runs) :
        LET doc == BeforeText(t_runs[i])
            out == t_runs[i].after
        IN  HasRegion(doc) =>
                LET b == BeforeRegion(doc)
                    a == AfterRegion(doc)
                IN  /\ IsPrefix(b, out)
                    /\ \/ out = b \o Wrapped(t_patch) \o a
                       \/ /\ b # <<>>
                          /\ out = SubSeq(b, 1, Len(b) - 1) \o Wrapped(t_patch) \o a

\* C3: when the existing text lacks the start marker, or lacks an end marker at
\* or after the start marker, the result is the existing text followed by the
\* wrapped block (the existing text being empty when the target file is absent).
C3_AppendsWhenNoRegion ==
    \A i \in 1..Len(t_runs) :
        LET doc == BeforeText(t_runs[i])
        IN  ~HasRegion(doc) => t_runs[i].after = doc \o Wrapped(t_patch)

\* A run on an existing file that holds an end marker and, after it, a start
\* marker with no end marker behind it.
C3_Witness ==
    \E i \in 1..Len(t_runs) :
        LET doc == BeforeText(t_runs[i])
        IN  /\ t_runs[i].before.exists
            /\ StartPositions(doc) # {}
            /\ \E e \in 0..Len(doc) : OccursAt(doc, ED, e)
            /\ ~HasRegion(doc)
            /\ t_runs[i].after = doc \o Wrapped(t_patch)

(***************************************************************************)
(* Vocabulary of the claims about the JSON merge.                          *)
(***************************************************************************)
KeySet(d) == {d.obj[i].key : i \in 1..Len(d.obj)}

ValueAt(d, k) == CHOOSE v \in {d.obj[i].val : i \in 1..Len(d.obj)} : Item(k, v) \in Elems(d.obj)

Kind(v) == IF IsDict(v) THEN "mapping" ELSE IF IsList(v) THEN "sequence" ELSE "scalar"

Merged == j_result # Pending

\* The pairs of values merge_json can be called on: the arguments and,
\* for two mappings, the pairs under their shared keys.
RECURSIVE SharedPairs(_, _)
SharedPairs(s, t) ==
    {<<s, t>>} \cup
        IF IsDict(s) /\ IsDict(t)
        THEN UNION {SharedPairs(ValueAt(s, k), ValueAt(t, k)) : k \in KeySet(s) \cap KeySet(t)}
        ELSE {}

\* No pair of sequences to merge holds an unhashable element.
AllHashable(s, t) ==
    \A p \in SharedPairs(s, t) :
        IsList(p[1]) /\ IsList(p[2]) =>
            \A x \in Elems(p[1].list) \cup Elems(p[2].list) : Hashable(x)

MismatchErrors == {TypeErrorObjects, TypeErrorArrays}

\* C4: for two mappings the result is a mapping over the union of the keys; a
\* key of source alone keeps source's value, a key of target alone keeps
\* target's value, a shared key holds the merge of the two values, and source's
\* scalar where source's value is a scalar.
C4_MappingMerge ==
    (Merged /\ IsDict(j_source) /\ IsDict(j_target) /\ ~IsErr(j_result)) =>
        /\ IsDict(j_result)
        /\ KeySet(j_result) = KeySet(j_source) \cup KeySet(j_target)
        /\ Len(j_result.obj) = Cardinality(KeySet(j_result))
        /\ \A k \in KeySet(j_source) \ KeySet(j_target) :
                ValueAt(j_result, k) = ValueAt(j_source, k)
        /\ \A k \in KeySet(j_target) \ KeySet(j_source) :
                ValueAt(j_result, k) = ValueAt(j_target, k)
        /\ \A k \in KeySet(j_source) \cap KeySet(j_target) :
                /\ ValueAt(j_result, k) = merge_json(ValueAt(j_source, k), ValueAt(j_target, k))
                /\ Kind(ValueAt(j_source, k)) = "scalar" =>
                        ValueAt(j_result, k) = ValueAt(j_source, k)

\* Two mappings merged, with a key of target alone and a shared key whose
\* values are mappings with different keys, both found in the result.
C4_Witness ==
    /\ Merged /\ IsDict(j_source) /\ IsDict(j_target) /\ IsDict(j_result)
    /\ KeySet(j_target) \ KeySet(j_source) # {}
    /\ \E k \in KeySet(j_source) \cap KeySet(j_target) :
          /\ IsDict(ValueAt(j_source, k)) /\ IsDict(ValueAt(j_target, k))
          /\ Cardinality(KeySet(ValueAt(j_result, k))) = 2
          /\ KeySet(ValueAt(j_source, k)) # KeySet(ValueAt(j_target, k))

\* C5: for two sequences of hashable elements the result is the source
\* sequence followed by the target elements equal to no source element, in
\* target's order, and by nothing else.
C5_SequenceMerge ==
    (/\ Merged /\ IsList(j_source) /\ IsList(j_target)
     /\ \A x \in Elems(j_source.list) \cup Elems(j_target.list) : Hashable(x)) =>
        /\ IsList(j_result)
        /\ LET src == j_source.list
               tgt == j_target.list
               out == j_result.list
               new == {i \in 1..Len(tgt) : tgt[i] \notin Elems(src)}
           IN  /\ Len(out) = Len(src) + Cardinality(new)
               /\ \A i \in 1..Len(src) : out[i] = src[i]
               /\ \A i \in new :
                     out[Len(src) + Cardinality({j \in new : j <= i})] = tgt[i]

\* Two sequences merged, where target holds an element of source and, after
\* it, an element source lacks.
C5_Witness ==
    /\ Merged /\ IsList(j_source) /\ IsList(j_target) /\ IsList(j_result)
    /\ j_source.list # <<>>
    /\ \E i, j \in 1..Len(j_target.list) :
          /\ i < j
          /\ j_target.list[i] \in Elems(j_source.list)
          /\ j_target.list[j] \notin Elems(j_source.list)
    /\ Len(j_result.list) < Len(j_source.list) + Len(j_target.list)

\* C6 as stated: the type-mismatch error is raised whenever the two values at
\* one position differ in kind, in either direction (no unhashable sequence
\* element being involved).
C6_RaisedInBothDirections ==
    (Merged /\ AllHashable(j_source, j_target)) =>
        ((\E p \in SharedPairs(j_source, j_target) :
                \/ IsDict(p[1]) # IsDict(p[2])
                \/ IsList(p[1]) # IsList(p[2]))
            => j_result \in MismatchErrors)

\* C6, amended: the type-mismatch error is raised exactly when, at the top
\* level or under shared keys, source's value is a mapping and target's is not,
\* or source's value is a sequence and target's is not; a scalar source value
\* is returned, whatever target holds at that position.
C6_RaisedBySourceKind ==
    Merged =>
        /\ j_result \in MismatchErrors =>
              \E p \in SharedPairs(j_source, j_target) :
                  \/ IsDict(p[1]) /\ ~IsDict(p[2])
                  \/ IsList(p[1]) /\ ~IsList(p[2])
        /\ AllHashable(j_source, j_target) =>
              /\ (\E p \in SharedPairs(j_source, j_target) : IsDict(p[1]) /\ ~IsDict(p[2]))
                    => j_result \in MismatchErrors
              /\ (\E p \in SharedPairs(j_source, j_target) : IsList(p[1]) /\ ~IsList(p[2]))
                    => j_result \in MismatchErrors
        /\ Kind(j_source) = "scalar" => j_result = j_source

\* A mapping merged into a sequence one level down, under a shared key.
C6_Witness ==
    /\ Merged /\ IsDict(j_source) /\ IsDict(j_target)
    /\ \E k \in KeySet(j_source) \cap KeySet(j_target) :
          IsDict(ValueAt(j_source, k)) /\ IsList(ValueAt(j_target, k))
    /\ j_result = TypeErrorObjects

(***************************************************************************)
(* Vocabulary of the claim about the source reader.                        *)
(***************************************************************************)
SourceLines == splitlines(r_string)

\* Line i lies in an ignored region: some line j at or before it holds the
\* ignore-start marker and no line from j up to the line before i holds the
\* ignore-end marker (the line that holds the end marker is the last of its
\* region; without one the region runs to the end of the file).
Ignored(lines, i) ==
    \E j \in 1..i :
        /\ Contains(lines[j], IGNORE_START_DELIMITER)
        /\ \A k \in j..(i - 1) : ~Contains(lines[k], IGNORE_END_DELIMITER)

\* C8: the patch holds, in their order, exactly the lines of the source that
\* lie in no ignored region, where a region runs from a line holding the
\* ignore-start marker through the next line holding the ignore-end marker,
\* marker lines included, and to the end of the file if no such line follows.
C8_IgnoredRegionsOmitted ==
    r_patch # Unread =>
        LET lines == SourceLines
            kept == {i \in 1..Len(lines) : ~Ignored(lines, i)}
            out == splitlines(r_patch)
        IN  /\ r_patch[Len(r_patch)] = NL
            /\ r_patch = join(out) \o <<NL>>
            /\ kept # {} =>
                  /\ Len(out) = Cardinality(kept)
                  /\ \A i \in kept : out[Cardinality({j \in kept : j <= i})] = lines[i]
            /\ kept = {} => r_patch = <<NL>>

\* A source with an ignore-start line, an ignored line, an ignore-end line and
\* a kept line after them, read.
C8_Witness ==
    /\ r_patch # Unread
    /\ LET lines == SourceLines
       IN  /\ Len(lines) >= 4
           /\ \E i, j \in 1..Len(lines) :
                 /\ i + 1 < j /\ j < Len(lines)
                 /\ Contains(lines[i], IGNORE_START_DELIMITER)
                 /\ Contains(lines[j], IGNORE_END_DELIMITER)
                 /\ lines[i + 1] = <<"a">>
                 /\ lines[Len(lines)] = <<"a">>
           /\ r_patch = <<"a", NL>>

(***************************************************************************)
(* Vocabulary of the claim about the checker.                              *)
(***************************************************************************)
IsRuffCheck(command) ==
    /\ SubSeq(command, 1, 2) = <<"uvx", "ruff">>
    /\ "check" \in Elems(command) /\ "--fix" \in Elems(command)

IsRuffFormat(command) == SubSeq(command, 1, 3) = <<"uvx", "ruff", "format">>

IsMypy(command) == SubSeq(command, 1, 3) = <<"uvx", "mypy", "--strict">>

\* C9: the tools are started in the order ruff check --fix, ruff format,
\* mypy --strict; a tool is started only after every earlier tool has ended
\* with code 0; at the first nonzero code no further tool is started and the
\* checker exits with that code; when all three end with 0 the checker logs
\* its success and exits with 0.
C9_ToolsInOrderUntilFailure ==
    /\ Len(c_started) <= 3
    /\ Len(c_started) >= 1 => IsRuffCheck(c_started[1])
    /\ Len(c_started) >= 2 => IsRuffFormat(c_started[2])
    /\ Len(c_started) >= 3 => IsMypy(c_started[3])
    /\ \A i \in 2..Len(c_started) :
          /\ Len(c_codes) >= i - 1
          /\ \A j \in 1..(i - 1) : c_codes[j] = 0
    /\ \A i \in 1..Len(c_codes) :
          c_codes[i] # 0 =>
              /\ c_exit = <<c_codes[i]>>
              /\ Len(c_started) = i /\ Len(c_codes) = i
              /\ c_running = NoProcess
    /\ (Len(c_codes) = 3 /\ \A i \in 1..3 : c_codes[i] = 0) =>
          /\ c_exit = <<0>>
          /\ c_log[Len(c_log)] = <<"INFO", "all checks passed">>
    /\ c_exit = <<0>> => (Len(c_codes) = 3 /\ \A i \in 1..3 : c_codes[i] = 0)

\* The second tool has ended with a nonzero code after the first ended with 0,
\* and the checker has exited.
C9_Witness ==
    /\ Len(c_codes) = 2 /\ c_codes[1] = 0 /\ c_codes[2] # 0
    /\ Len(c_started) = 2
    /\ c_exit = <<c_codes[2]>>

(***************************************************************************)
(* Vocabulary of the claims about the installer.                           *)
(***************************************************************************)
CurrentTarget == target_path(Head(i_todo).path, Head(i_todo).target_dir)

\* The step is an install_text or install_json call that returned.
CallReturned ==
    /\ i_todo # <<>>
    /\ Head(i_todo).fn # "install_uv"
    /\ i_todo' = Tail(i_todo)

\* C7: when the JSON merge raises the type mismatch in install_json for an
\* existing target file, write_file is not reached: in that step no file, no
\* directory and no permission bit changes, no operation is made on the
\* filesystem and nothing is logged.
C7_NoPartialOutput ==
    [][ (i_error = NoError /\ i_error' \in MismatchErrors) =>
            /\ Head(i_todo).fn = "install_json"
            /\ i_files[CurrentTarget].exists
            /\ i_files' = i_files
            /\ i_dirs' = i_dirs
            /\ i_ops' = i_ops
            /\ i_log' = i_log
      ]_vars

\* A run without --dry-run that wrote files and then ended on a type mismatch
\* at an existing settings file, which no operation has touched.
C7_Witness ==
    /\ i_error \in MismatchErrors
    /\ ~Truthy(i_dry_run)
    /\ i_todo # <<>>
    /\ i_ops # <<>>
    /\ i_files[CurrentTarget] \in SettingsFiles \ {NoFile}
    /\ \A k \in 1..Len(i_ops) : i_ops[k].path # CurrentTarget

\* C10: with --dry-run no step of the installer changes a target file, a
\* directory or a permission bit, and a call that reaches write_file logs the
\* target path and then the content; without it such a call makes the parent
\* directories, writes the target and copies the source's permission bits
\* onto it, in that order, and touches no other file.
C10_DryRunWritesNothing ==
    [][ /\ Truthy(i_dry_run) =>
              /\ i_files' = i_files /\ i_dirs' = i_dirs /\ i_ops' = i_ops
              /\ CallReturned =>
                    /\ Len(i_log') = Len(i_log) + 2
                    /\ i_log'[Len(i_log) + 1] = <<"would write %s:", CurrentTarget>>
                    /\ i_log'[Len(i_log) + 2][1] = "%s"
        /\ (~Truthy(i_dry_run) /\ CallReturned) =>
              /\ i_ops' = i_ops \o << [op |-> "mkdir", path |-> Parent(CurrentTarget)],
                                      [op |-> "write_text", path |-> CurrentTarget],
                                      [op |-> "chmod", path |-> CurrentTarget] >>
              /\ Ancestors(Parent(CurrentTarget)) \subseteq i_dirs'
              /\ i_files'[CurrentTarget].exists
              /\ i_files'[CurrentTarget].mode = SourceFile(Head(i_todo).path).mode
              /\ \A p \in TargetPaths \ {CurrentTarget} : i_files'[p] = i_files[p]
      ]_vars

\* A dry run that made every call of main, where a target directory was
\* missing, and left the filesystem without it.
C10_Witness ==
    /\ Truthy(i_dry_run)
    /\ i_todo = <<>>
    /\ Len(i_log) >= 8
    /\ i_ops = <<>>
    /\ \E k \in 1..Len(i_log) :
          i_log[k][1] = "would write %s:" /\ i_log[k][2] = SettingsPath("proj1")
    /\ WorkspacesDir \o <<"proj1", ".vscode">> \notin i_dirs

====
